---- MODULE Spec2Model ----
(***************************************************************************)
(* Model of ksv::static_vector<T, N> (src/static_vector.h): a fixed        *)
(* capacity vector that keeps its elements in an inline byte buffer.       *)
(*                                                                         *)
(* A container is a record [curr_size, buffer].  A slot of the buffer is a  *)
(* record [live, val]: live tells whether a T has been constructed there   *)
(* and not yet destroyed, val is the value found when the slot is read as  *)
(* a T.  Storage in which no T lives has an indeterminate value (Indet).   *)
(* Slot N stands for the memory one element past the end of the buffer,    *)
(* which pb_internal / mb_internal / eb_internal write when curr_size = N. *)
(*                                                                         *)
(* Undefined behaviour is a nondeterministic choice.  Reading storage that *)
(* holds no T yields an indeterminate value, and assigning through a T& to *)
(* such storage leaves an indeterminate value behind; when an operation    *)
(* returns, every indeterminate value inside the logical range             *)
(* [0, curr_size) of a container is resolved to an arbitrary member of     *)
(* Val.  The value of curr_size after a placement past the end of the      *)
(* buffer is arbitrary as well.                                            *)
(***************************************************************************)
EXTENDS Integers, Sequences, FiniteSets, TLC

\* capacity of the instantiation static_vector<T, N>
N == 2

\* number of operations in a run
MaxOps == 3

\* the element values
Val == {1, 2}

\* the container objects of the program, and the temporary of operator=
Names == {"a", "b"}
Tmp == "tmp"
Objs == Names \cup {Tmp}

\* slot indices; slot N is the storage just past the end of buffer
Slots == 0 .. N

\* the indeterminate value
Indet == 0

\* unconstructed storage
Raw == [live |-> FALSE, val |-> Indet]

Elem(v) == [live |-> TRUE, val |-> v]

\* std::byte buffer[sizeof(T) * N]; size_type curr_size{0};
EmptyVec == [curr_size |-> 0, buffer |-> [i \in Slots |-> Raw]]

VARIABLES
    vec,     \* vec[x]: the fields of container object x
    exists,  \* exists[x]: x is within its lifetime
    last,    \* ghost: the last operation, its outcome and its event log
    ops      \* ghost: number of operations performed

vars == <<vec, exists, last, ops>>

\* ---------------------------------------------------------------------
\* The execution context of one operation: the containers it touches,
\* the element constructions / destructions it performs in order, and
\* the undefined behaviour it runs into.
\* ---------------------------------------------------------------------
Ctx(c) == [c |-> c, log |-> <<>>, ub |-> {}]

Ev(e, x, i) == [e |-> e, c |-> x, i |-> i]

\* the element values of the logical range [0, curr_size)
Contents(v) == [i \in 1 .. v.curr_size |-> v.buffer[i - 1].val]

\* every slot of [0, curr_size) is a live element, the rest is unconstructed
WellFormed(v) ==
    /\ v.curr_size <= N
    /\ \A i \in Slots : v.buffer[i].live <=> i < v.curr_size

\* indices of [0, n) of v that hold no live element
NotLive(v, n) == {i \in 0 .. n - 1 : ~v.buffer[i].live}

\* bool empty() const
empty(v) == v.curr_size = 0

\* size_type size() const
size(v) == v.curr_size

\* size_type capacity() const
capacity(v) == N

\* void validate_curr_size() const: TRUE when it throws length_error
validate_curr_size(v) == v.curr_size > N

\* validate_count with the comparison off by one
validate_count_lax(count) == count > N + 1

\* void validate_count(size_type) const: TRUE when it throws bad_alloc
validate_count(count) == count > N

\* void validate_index(size_type) const: TRUE when it throws out_of_range
validate_index(v, index) == index >= v.curr_size

\* pb_internal / mb_internal / eb_internal on s.c[t]: placement-new of
\* value at slot curr_size, then ++curr_size.  sz is the value curr_size
\* ends with when the placement went past the end of the buffer.
pb_internal(s, t, value, sz) ==
    LET n == s.c[t].curr_size
        nv == [curr_size |-> IF n < N THEN n + 1 ELSE sz,
               buffer |-> [s.c[t].buffer EXCEPT ![n] = Elem(value)]]
    IN [c |-> [s.c EXCEPT ![t] = nv],
        log |-> Append(s.log, Ev("construct", t, n)),
        ub |-> s.ub \cup (IF n >= N THEN {"oob_write"} ELSE {})
                    \cup (IF s.c[t].buffer[n].live THEN {"overwrite_live"} ELSE {})]

mb_internal(s, t, value, sz) == pb_internal(s, t, value, sz)

eb_internal(s, t, value, sz) == pb_internal(s, t, value, sz)

\* std::destroy_at on slot i of s.c[t]
destroy_at(s, t, i) ==
    [c |-> [s.c EXCEPT ![t].buffer[i] = Raw],
     log |-> Append(s.log, Ev("destroy", t, i)),
     ub |-> s.ub \cup (IF s.c[t].buffer[i].live THEN {} ELSE {"destroy_unconstructed"})]

RECURSIVE clear_loop_ascending(_, _, _, _)
\* the loop of clear_elements destroying slot i instead of slot n - 1 - i
clear_loop_ascending(s, t, n, i) ==
    IF i < n THEN clear_loop_ascending(destroy_at(s, t, i), t, n, i + 1) ELSE s

RECURSIVE clear_loop(_, _, _, _)
\* the loop of clear_elements: destroys slot n - 1 - i for i = 0 .. n - 1
clear_loop(s, t, n, i) ==
    IF i < n THEN clear_loop(destroy_at(s, t, n - 1 - i), t, n, i + 1) ELSE s

\* void clear_elements()
clear_elements(s, t) ==
    LET r == clear_loop(s, t, s.c[t].curr_size, 0)
    IN [r EXCEPT !.c[t].curr_size = 0]

\* std::swap(a, b) on two slots, seen from a: a = std::move(b).  Assigning
\* to storage that holds no T leaves it without a T.
SwapSlot(a, b) == IF a.live THEN Elem(b.val) ELSE Raw

\* void swap(static_vector &other), called on t with other = o:
\* swap_ranges(begin(), end(), other.begin()), then the sizes.
swap(s, t, o) ==
    LET tv == s.c[t]
        ov == s.c[o]
        n == tv.curr_size
        rng == 0 .. n - 1
        bad == NotLive(tv, n) \cup NotLive(ov, n)
        flags == (IF bad # {} THEN {"access_unconstructed"} ELSE {})
                 \cup (IF n > N THEN {"oob_access"} ELSE {})
    IN IF t = o
       THEN [s EXCEPT !.ub = @ \cup flags]
       ELSE [c |-> [s.c EXCEPT
                ![t] = [curr_size |-> ov.curr_size,
                        buffer |-> [i \in Slots |->
                            IF i \in rng
                            THEN SwapSlot(tv.buffer[i], ov.buffer[i])
                            ELSE tv.buffer[i]]],
                ![o] = [curr_size |-> tv.curr_size,
                        buffer |-> [i \in Slots |->
                            IF i \in rng
                            THEN SwapSlot(ov.buffer[i], tv.buffer[i])
                            ELSE ov.buffer[i]]]],
             log |-> s.log,
             ub |-> s.ub \cup flags]

\* ---------------------------------------------------------------------
\* Initial state: no container has been constructed yet.
\* ---------------------------------------------------------------------
NoOp == [op |-> "none", x |-> "-", y |-> "-", res |-> "ok", arg |-> <<>>,
         log |-> <<>>, ub |-> {}]

Init ==
    /\ vec = [x \in Names |-> EmptyVec]
    /\ exists = [x \in Names |-> FALSE]
    /\ last = NoOp
    /\ ops = 0

\* the operations that append one element
Appends == {"push_back_copy", "push_back_move", "emplace_back"}

\* the record of an operation op on x (and y) with argument arg that ended
\* with res in context s
Done(op, x, y, res, arg, s) ==
    [op |-> op, x |-> x, y |-> y, res |-> res, arg |-> arg,
     log |-> s.log, ub |-> s.ub]

\* the context of an operation that starts in the current state
Now == Ctx([o \in Objs |-> IF o \in Names THEN vec[o] ELSE EmptyVec])

\* the slots of the logical ranges that an operation leaves indeterminate
Holes(s) ==
    {h \in Names \X Slots :
        h[2] < s.c[h[1]].curr_size /\ s.c[h[1]].buffer[h[2]].val = Indet}

\* the containers of the program as an operation leaves them, g resolving
\* the indeterminate values
Commit(s, g) ==
    [x \in Names |->
        [curr_size |-> s.c[x].curr_size,
         buffer |-> [i \in Slots |->
            IF <<x, i>> \in DOMAIN g
            THEN [s.c[x].buffer[i] EXCEPT !.val = g[<<x, i>>]]
            ELSE s.c[x].buffer[i]]]]

\* vec' is one of the outcomes of an operation that ends in context s
Returns(s) == \E g \in [Holes(s) -> Val] : vec' = Commit(s, g)

\* the source sequences of the range / list constructors
SrcSeqs == UNION {[1 .. n -> Val] : n \in 0 .. N + 1}

\* the exception-free outcome of the element copy constructor
NoThrow == -1

\* the values curr_size can end with after pb_internal ran on a container
\* of size n
SizeAfter(n) == IF n >= N THEN 0 .. N + 1 ELSE {n + 1}

RECURSIVE range_loop(_, _, _, _)
\* for (auto iter{begin}; iter != end; ++iter) pb_internal(*iter);
range_loop(s, t, src, i) ==
    IF i <= Len(src)
    THEN range_loop(pb_internal(s, t, src[i], N + 1), t, src, i + 1)
    ELSE s

\* static_vector(Iter begin, Iter end) on the fresh object t
range_ctor(s, t, src) ==
    IF validate_count(Len(src))
    THEN [s |-> s, res |-> "bad_alloc"]
    ELSE [s |-> range_loop(s, t, src, 1), res |-> "ok"]

RECURSIVE fill_loop_one_more(_, _, _, _, _)
\* the fill loop with the bound i <= count instead of i < count
fill_loop_one_more(s, t, count, value, i) ==
    IF i <= count
    THEN fill_loop_one_more(pb_internal(s, t, value, N + 1), t, count, value, i + 1)
    ELSE s

RECURSIVE fill_loop(_, _, _, _, _)
\* for (size_type i{0}; i < count; ++i) pb_internal(value);
fill_loop(s, t, count, value, i) ==
    IF i < count
    THEN fill_loop(pb_internal(s, t, value, N + 1), t, count, value, i + 1)
    ELSE s

\* static_vector(size_type count, const T &value) on the fresh object t
fill_ctor(s, t, count, value) ==
    IF validate_count(count)
    THEN [s |-> s, res |-> "bad_alloc"]
    ELSE [s |-> fill_loop(s, t, count, value, 0), res |-> "ok"]

\* the flags of reading slot i of s.c[o] through operator[]
ReadFlags(s, o, i) ==
    (IF s.c[o].buffer[i].live THEN {} ELSE {"access_unconstructed"})
    \cup (IF i >= N THEN {"oob_access"} ELSE {})

RECURSIVE copy_loop(_, _, _, _, _, _)
\* the try block of the copy constructor and its handler; the copy of
\* element thr throws
copy_loop(s, t, o, i, thr, sz) ==
    IF i < s.c[o].curr_size
    THEN IF i = thr
         THEN [s |-> clear_elements(s, t), res |-> "copy_throw"]
         ELSE copy_loop(pb_internal([s EXCEPT !.ub = @ \cup ReadFlags(s, o, i)],
                                    t, s.c[o].buffer[i].val, sz),
                        t, o, i + 1, thr, sz)
    ELSE [s |-> s, res |-> "ok"]

\* static_vector(const static_vector &other) on the fresh object t
copy_ctor(s, t, o, thr, sz) == copy_loop(s, t, o, 0, thr, sz)

\* static_vector(static_vector &&other) noexcept on the fresh object t
move_ctor(s, t, o) == swap(s, o, t)

\* ~static_vector() on s.c[t]; elements outside [0, curr_size) that are
\* still alive when the storage goes away are leaked
dtor(s, t) ==
    LET r == clear_elements(s, t)
        left == {i \in Slots : r.c[t].buffer[i].live}
    IN [c |-> [r.c EXCEPT ![t] = EmptyVec],
        log |-> r.log,
        ub |-> r.ub \cup (IF left # {} THEN {"leak"} ELSE {})]

\* the inputs of the copy constructor from v
Throws(v) == {NoThrow} \cup (0 .. v.curr_size - 1)

\* x can be constructed: it is not within its lifetime.  The first container
\* of a run is called "a".
Fresh(x) == ~exists[x] /\ (ops = 0 => x = "a")

\* static_vector() = default
DefaultCtor(x) ==
    /\ ops < MaxOps
    /\ Fresh(x)
    /\ vec' = [vec EXCEPT ![x] = EmptyVec]
    /\ exists' = [exists EXCEPT ![x] = TRUE]
    /\ last' = Done("default_ctor", x, "-", "ok", <<>>, Now)
    /\ ops' = ops + 1

\* static_vector(Iter, Iter)
RangeCtor(x, src) ==
    /\ ops < MaxOps
    /\ Fresh(x)
    /\ LET r == range_ctor(Now, x, src)
       IN /\ Returns(r.s)
          /\ exists' = [exists EXCEPT ![x] = (r.res = "ok")]
          /\ last' = Done("range_ctor", x, "-", r.res, src, r.s)
    /\ ops' = ops + 1

\* static_vector(std::initializer_list<T>): delegates to the range constructor
ListCtor(x, list) ==
    /\ ops < MaxOps
    /\ Fresh(x)
    /\ LET r == range_ctor(Now, x, list)
       IN /\ Returns(r.s)
          /\ exists' = [exists EXCEPT ![x] = (r.res = "ok")]
          /\ last' = Done("list_ctor", x, "-", r.res, list, r.s)
    /\ ops' = ops + 1

\* static_vector(size_type, const T &)
FillCtor(x, count, value) ==
    /\ ops < MaxOps
    /\ Fresh(x)
    /\ LET r == fill_ctor(Now, x, count, value)
       IN /\ Returns(r.s)
          /\ exists' = [exists EXCEPT ![x] = (r.res = "ok")]
          /\ last' = Done("fill_ctor", x, "-", r.res, <<count, value>>, r.s)
    /\ ops' = ops + 1

\* static_vector(const static_vector &): x is constructed as a copy of y
CopyCtor(x, y) ==
    /\ ops < MaxOps
    /\ Fresh(x) /\ exists[y]
    /\ \E thr \in Throws(vec[y]), sz \in SizeAfter(vec[y].curr_size - 1) :
         LET r == copy_ctor(Now, x, y, thr, sz)
         IN /\ Returns(r.s)
            /\ exists' = [exists EXCEPT ![x] = (r.res = "ok")]
            /\ last' = Done("copy_ctor", x, y, r.res, <<thr>>, r.s)
    /\ ops' = ops + 1

\* static_vector(static_vector &&) noexcept: x is constructed from y
MoveCtor(x, y) ==
    /\ ops < MaxOps
    /\ Fresh(x) /\ exists[y]
    /\ LET r == move_ctor(Now, x, y)
       IN /\ Returns(r)
          /\ last' = Done("move_ctor", x, y, "ok", <<>>, r)
    /\ exists' = [exists EXCEPT ![x] = TRUE]
    /\ ops' = ops + 1

\* copy assignment that destroys the elements of *this and copies into
\* *this directly, without the temporary
copy_assign_in_place(s, t, o, thr, sz) ==
    IF t = o THEN [s |-> s, res |-> "ok"]
    ELSE copy_loop(clear_elements(s, t), t, o, 0, thr, sz)

\* static_vector &operator=(const static_vector &other), x = y:
\* static_vector tmp{other}; tmp.swap(*this); then tmp is destroyed
copy_assign(s, t, o, thr, sz) ==
    LET r == copy_ctor(s, Tmp, o, thr, sz)
    IN IF r.res # "ok" THEN r
       ELSE [s |-> dtor(swap(r.s, Tmp, t), Tmp), res |-> "ok"]

CopyAssign(x, y) ==
    /\ ops < MaxOps
    /\ exists[x] /\ exists[y]
    /\ \E thr \in Throws(vec[y]), sz \in SizeAfter(vec[y].curr_size - 1) :
         LET r == copy_assign(Now, x, y, thr, sz)
         IN /\ Returns(r.s)
            /\ last' = Done("copy_assign", x, y, r.res, <<thr>>, r.s)
    /\ exists' = exists
    /\ ops' = ops + 1

\* static_vector &operator=(static_vector &&other) noexcept, x = std::move(y):
\* static_vector tmp{std::move(other)}; tmp.swap(*this); then tmp is destroyed
move_assign(s, t, o) == dtor(swap(move_ctor(s, Tmp, o), Tmp, t), Tmp)

MoveAssign(x, y) ==
    /\ ops < MaxOps
    /\ exists[x] /\ exists[y] /\ x # y
    /\ LET r == move_assign(Now, x, y)
       IN /\ Returns(r)
          /\ last' = Done("move_assign", x, y, "ok", <<>>, r)
    /\ exists' = exists
    /\ ops' = ops + 1

\* ~static_vector()
Dtor(x) ==
    /\ ops < MaxOps
    /\ exists[x]
    /\ LET r == dtor(Now, x)
       IN /\ Returns(r)
          /\ last' = Done("dtor", x, "-", "ok", <<>>, r)
    /\ exists' = [exists EXCEPT ![x] = FALSE]
    /\ ops' = ops + 1

\* void push_back(const_reference value)
push_back(s, t, value, sz) ==
    IF validate_curr_size(s.c[t])
    THEN [s |-> s, res |-> "length_error"]
    ELSE [s |-> pb_internal(s, t, value, sz), res |-> "ok"]

\* void push_back(value_type &&value)
push_back_move(s, t, value, sz) ==
    IF validate_curr_size(s.c[t])
    THEN [s |-> s, res |-> "length_error"]
    ELSE [s |-> mb_internal(s, t, value, sz), res |-> "ok"]

\* void emplace_back(Args &&...args)
emplace_back(s, t, value, sz) ==
    IF validate_curr_size(s.c[t])
    THEN [s |-> s, res |-> "length_error"]
    ELSE [s |-> eb_internal(s, t, value, sz), res |-> "ok"]

PushBackCopy(x, value) ==
    /\ ops < MaxOps
    /\ exists[x]
    /\ \E sz \in SizeAfter(vec[x].curr_size) :
         LET r == push_back(Now, x, value, sz)
         IN /\ Returns(r.s)
            /\ last' = Done("push_back_copy", x, "-", r.res, <<value>>, r.s)
    /\ exists' = exists
    /\ ops' = ops + 1

PushBackMove(x, value) ==
    /\ ops < MaxOps
    /\ exists[x]
    /\ \E sz \in SizeAfter(vec[x].curr_size) :
         LET r == push_back_move(Now, x, value, sz)
         IN /\ Returns(r.s)
            /\ last' = Done("push_back_move", x, "-", r.res, <<value>>, r.s)
    /\ exists' = exists
    /\ ops' = ops + 1

EmplaceBack(x, value) ==
    /\ ops < MaxOps
    /\ exists[x]
    /\ \E sz \in SizeAfter(vec[x].curr_size) :
         LET r == emplace_back(Now, x, value, sz)
         IN /\ Returns(r.s)
            /\ last' = Done("emplace_back", x, "-", r.res, <<value>>, r.s)
    /\ exists' = exists
    /\ ops' = ops + 1

\* pop_back that destroys before it decrements curr_size
pop_back_destroy_first(s, t) ==
    LET n == s.c[t].curr_size
        d == destroy_at(s, t, n)
    IN [d EXCEPT !.c[t].curr_size = n - 1]


\* void pop_back(): --curr_size, then destroy_at(curr_size).  Calling it on
\* an empty container is outside the contract and is not modelled.
pop_back(s, t) ==
    LET n == s.c[t].curr_size - 1
    IN destroy_at([s EXCEPT !.c[t].curr_size = n], t, n)

\* ghost: the value that the operation just before appended to x, if any
JustAppended(x) ==
    IF last.op \in Appends /\ last.res = "ok" /\ last.x = x
    THEN <<last.arg[1]>>
    ELSE <<>>

PopBack(x) ==
    /\ ops < MaxOps
    /\ exists[x]
    /\ vec[x].curr_size > 0
    /\ LET r == pop_back(Now, x)
       IN /\ Returns(r)
          /\ last' = Done("pop_back", x, "-", "ok", JustAppended(x), r)
    /\ exists' = exists
    /\ ops' = ops + 1

\* void clear()
Clear(x) ==
    /\ ops < MaxOps
    /\ exists[x]
    /\ LET r == clear_elements(Now, x)
       IN /\ Returns(r)
          /\ last' = Done("clear", x, "-", "ok", <<>>, r)
    /\ exists' = exists
    /\ ops' = ops + 1

\* friend void swap(static_vector &lhs, static_vector &rhs)
Swap(x, y) ==
    /\ ops < MaxOps
    /\ exists[x] /\ exists[y]
    /\ LET r == swap(Now, x, y)
       IN /\ Returns(r)
          /\ last' = Done("swap", x, y, "ok", <<>>, r)
    /\ exists' = exists
    /\ ops' = ops + 1

\* reference operator[](size_type pos), used to assign to a position of the
\* logical range: x[pos] = value with pos < size()
index_write(s, t, pos, value) ==
    [c |-> [s.c EXCEPT ![t].buffer[pos] = SwapSlot(@, Elem(value))],
     log |-> s.log,
     ub |-> s.ub \cup ReadFlags(s, t, pos)]

IndexWrite(x, pos, value) ==
    /\ ops < MaxOps
    /\ exists[x]
    /\ pos < vec[x].curr_size
    /\ LET r == index_write(Now, x, pos, value)
       IN /\ Returns(r)
          /\ last' = Done("index_write", x, "-", "ok", <<pos, value>>, r)
    /\ exists' = exists
    /\ ops' = ops + 1

Next ==
    \/ \E x \in Names : DefaultCtor(x)
    \/ \E x \in Names, src \in SrcSeqs : RangeCtor(x, src)
    \/ \E x \in Names, list \in SrcSeqs : ListCtor(x, list)
    \/ \E x \in Names, count \in 0 .. N + 1, value \in Val : FillCtor(x, count, value)
    \/ \E x, y \in Names : CopyCtor(x, y)
    \/ \E x, y \in Names : MoveCtor(x, y)
    \/ \E x, y \in Names : CopyAssign(x, y)
    \/ \E x, y \in Names : MoveAssign(x, y)
    \/ \E x \in Names : Dtor(x)
    \/ \E x \in Names, value \in Val : PushBackCopy(x, value)
    \/ \E x \in Names, value \in Val : PushBackMove(x, value)
    \/ \E x \in Names, value \in Val : EmplaceBack(x, value)
    \/ \E x \in Names : PopBack(x)
    \/ \E x \in Names : Clear(x)
    \/ \E x, y \in Names : Swap(x, y)
    \/ \E x \in Names, pos \in Slots, value \in Val : IndexWrite(x, pos, value)

Spec == Init /\ [][Next]_vars

\* ---------------------------------------------------------------------
\* Observers.  at() and the comparison operators leave the containers
\* alone; they are exercised on two containers a and b left behind by a
\* short program: both are constructed from ranges, then nothing else
\* happens, or a.swap(b) runs, or a value is appended to a.
\* ---------------------------------------------------------------------

\* reference at(size_type pos) / const_reference at(size_type pos) const;
\* ref is the slot the returned reference designates
at(s, t, pos) ==
    IF validate_index(s.c[t], pos)
    THEN [s |-> s, res |-> "out_of_range", ref |-> <<>>]
    ELSE [s |-> s, res |-> "ok", ref |-> <<s.c[t].buffer[pos]>>]

At(x, pos) ==
    /\ ops < MaxOps
    /\ exists[x]
    /\ LET r == at(Now, x, pos)
       IN /\ Returns(r.s)
          /\ last' = Done("at", x, "-", r.res, <<pos, r.ref>>, r.s)
    /\ exists' = exists
    /\ ops' = ops + 1

RECURSIVE std_equal(_, _, _)
\* std::equal(lhs.begin(), lhs.end(), rhs.begin()) from position i on;
\* reads are the positions dereferenced in both containers
std_equal(lhs, rhs, i) ==
    IF i < lhs.curr_size
    THEN IF lhs.buffer[i].val = rhs.buffer[i].val
         THEN LET r == std_equal(lhs, rhs, i + 1)
              IN [res |-> r.res, reads |-> {i} \cup r.reads]
         ELSE [res |-> FALSE, reads |-> {i}]
    ELSE [res |-> TRUE, reads |-> {}]

\* operator== without the comparison of the sizes
op_eq_elements_only(lhs, rhs) == std_equal(lhs, rhs, 0)

\* friend bool operator==(const static_vector &lhs, const static_vector &rhs)
op_eq(lhs, rhs) ==
    IF size(lhs) = size(rhs)
    THEN std_equal(lhs, rhs, 0)
    ELSE [res |-> FALSE, reads |-> {}]

\* friend bool operator!=
op_ne(lhs, rhs) == [op_eq(lhs, rhs) EXCEPT !.res = ~@]

RECURSIVE lexicographical_compare_or_equal(_, _, _)
\* a lexicographical comparison that also accepts an exhausted second range
lexicographical_compare_or_equal(lhs, rhs, i) ==
    IF i < lhs.curr_size /\ i < rhs.curr_size
    THEN IF lhs.buffer[i].val < rhs.buffer[i].val THEN TRUE
         ELSE IF rhs.buffer[i].val < lhs.buffer[i].val THEN FALSE
         ELSE lexicographical_compare_or_equal(lhs, rhs, i + 1)
    ELSE i = lhs.curr_size

RECURSIVE lexicographical_compare(_, _, _)
\* std::lexicographical_compare(lhs.begin(), lhs.end(), rhs.begin(),
\* rhs.end()) from position i on
lexicographical_compare(lhs, rhs, i) ==
    IF i < lhs.curr_size /\ i < rhs.curr_size
    THEN IF lhs.buffer[i].val < rhs.buffer[i].val THEN TRUE
         ELSE IF rhs.buffer[i].val < lhs.buffer[i].val THEN FALSE
         ELSE lexicographical_compare(lhs, rhs, i + 1)
    ELSE i = lhs.curr_size /\ i # rhs.curr_size

\* friend bool operator<, operator>, operator<=, operator>=
op_lt(lhs, rhs) == lexicographical_compare(lhs, rhs, 0)
op_gt(lhs, rhs) == op_lt(rhs, lhs)
op_le(lhs, rhs) == ~op_gt(lhs, rhs)
op_ge(lhs, rhs) == ~op_lt(lhs, rhs)

\* the six comparisons of x with y
Compare(x, y) ==
    /\ ops < MaxOps
    /\ exists[x] /\ exists[y]
    /\ LET eq == op_eq(vec[x], vec[y])
           res == [eq |-> eq.res, ne |-> op_ne(vec[x], vec[y]).res,
                   lt |-> op_lt(vec[x], vec[y]), gt |-> op_gt(vec[x], vec[y]),
                   le |-> op_le(vec[x], vec[y]), ge |-> op_ge(vec[x], vec[y]),
                   reads |-> eq.reads]
       IN /\ Returns(Now)
          /\ last' = Done("compare", x, y, "ok", <<res>>, Now)
    /\ exists' = exists
    /\ ops' = ops + 1

\* the programs that set up a and b
Setups == {"ranges", "swap", "push_back"}

\* the context after a and b were constructed from srcA and srcB and the
\* rest of setup k ran
SetUp(k, srcA, srcB, value, sz) ==
    LET s0 == Ctx([o \in Objs |-> EmptyVec])
        s1 == range_ctor(range_ctor(s0, "a", srcA).s, "b", srcB).s
    IN CASE k = "ranges" -> s1
         [] k = "swap" -> swap(s1, "a", "b")
         [] k = "push_back" -> push_back(s1, "a", value, sz).s

InitQuery ==
    /\ \E k \in Setups, srcA, srcB \in SrcSeqs, value \in Val, sz \in 0 .. N + 1 :
         /\ Len(srcA) <= N /\ Len(srcB) <= N
         /\ k # "push_back" => value = 1
         /\ sz \in (IF k = "push_back" THEN SizeAfter(Len(srcA)) ELSE {0})
         /\ LET s == SetUp(k, srcA, srcB, value, sz)
            IN \E g \in [Holes(s) -> Val] : vec = Commit(s, g)
    /\ exists = [x \in Names |-> TRUE]
    /\ last = NoOp
    /\ ops = 0

NextQuery ==
    \/ \E x \in Names, pos \in 0 .. N + 1 : At(x, pos)
    \/ \E x, y \in Names : Compare(x, y)

SpecQuery == InitQuery /\ [][NextQuery]_vars

\* ---------------------------------------------------------------------
\* Properties
\* ---------------------------------------------------------------------

\* the step just taken was operation op
Did(op) == ops' = ops + 1 /\ last'.op = op

\* C1: between operations, every container satisfies
\* 0 <= size() <= capacity() = N.
C1_SizeWithinCapacity ==
    \A x \in Names :
        exists[x] => /\ 0 <= size(vec[x])
                     /\ size(vec[x]) <= capacity(vec[x])
                     /\ capacity(vec[x]) = N

\* C2: an append on a container with fewer than N elements succeeds and
\* adds exactly one to size(); an append on a container with size() = N
\* fails with length_error and leaves size and contents unchanged.
C2_AppendUpToCapacity ==
    [][\A x \in Names :
         (\E op \in Appends : Did(op)) /\ last'.x = x /\ WellFormed(vec[x])
         => IF size(vec[x]) < N
            THEN last'.res = "ok" /\ size(vec'[x]) = size(vec[x]) + 1
            ELSE last'.res = "length_error" /\ vec'[x] = vec[x]]_vars

\* C3: in every reachable state each slot in [0, size) of every container
\* is a live element and each slot in [size, N) is unconstructed, and no
\* operation reads an unconstructed slot as an element or destroys one.
C3_LiveRangeIsConstructed ==
    /\ \A x \in Names : WellFormed(vec[x])
    /\ last.ub \cap {"access_unconstructed", "destroy_unconstructed"} = {}

\* C4: swap(a, b) leaves a with the sequence b had and b with the sequence
\* a had, whatever the two sizes are.
C4_SwapExchangesContents ==
    [][\A x, y \in Names :
         Did("swap") /\ last'.x = x /\ last'.y = y
         /\ WellFormed(vec[x]) /\ WellFormed(vec[y])
         => /\ Contents(vec'[x]) = Contents(vec[y])
            /\ Contents(vec'[y]) = Contents(vec[x])]_vars

\* C5: move construction never fails, leaves the source empty and the new
\* container with exactly the sequence the source held.
C5_MoveCtorTransfers ==
    [][\A x, y \in Names :
         Did("move_ctor") /\ last'.x = x /\ last'.y = y /\ WellFormed(vec[y])
         => /\ last'.res = "ok"
            /\ exists'[x]
            /\ size(vec'[y]) = 0
            /\ Contents(vec'[x]) = Contents(vec[y])]_vars

\* C6: move assignment a = std::move(b) never fails, leaves b empty and a
\* with exactly the sequence b held, whatever a held before.
C6_MoveAssignTransfers ==
    [][\A x, y \in Names :
         Did("move_assign") /\ last'.x = x /\ last'.y = y
         /\ WellFormed(vec[x]) /\ WellFormed(vec[y])
         => /\ last'.res = "ok"
            /\ size(vec'[y]) = 0
            /\ Contents(vec'[x]) = Contents(vec[y])]_vars

\* an operation that mutates only the container last'.x
Mutators == Appends \cup {"pop_back", "clear", "index_write"}

\* the events of constructing slots 0 .. k - 1 of t in ascending order and
\* then destroying them in descending order
BuiltThenUnwound(t, k) ==
    [j \in 1 .. 2 * k |->
        IF j <= k THEN Ev("construct", t, j - 1) ELSE Ev("destroy", t, 2 * k - j)]

\* C7: right after a successful copy construction or copy assignment the
\* copy equals the original and the original is unchanged; a later
\* mutation of one container leaves the other unchanged.
C7_CopyIsIndependentEqual ==
    [][\A x, y \in Names :
         /\ (Did("copy_ctor") \/ Did("copy_assign")) /\ last'.res = "ok"
            /\ last'.x = x /\ last'.y = y /\ x # y
            /\ WellFormed(vec[x]) /\ WellFormed(vec[y])
            => /\ Contents(vec'[x]) = Contents(vec[y])
               /\ vec'[y] = vec[y]
         /\ (\E op \in Mutators : Did(op)) /\ last'.x = x /\ x # y
            => vec'[y] = vec[y]]_vars

\* C8: when the copy of element k throws during copy construction, the k
\* elements built so far are destroyed in the order k - 1, ..., 0, each
\* exactly once and nothing else is destroyed; the new container is left
\* without a live element and the source is as it was.
C8_CopyCtorUnwinds ==
    [][\A x, y \in Names :
         Did("copy_ctor") /\ last'.x = x /\ last'.y = y /\ last'.res = "copy_throw"
         => LET k == last'.arg[1]
            IN /\ k \in 0 .. size(vec[y]) - 1
               /\ last'.log = BuiltThenUnwound(x, k)
               /\ "destroy_unconstructed" \notin last'.ub
               /\ \A i \in Slots : ~vec'[x].buffer[i].live
               /\ size(vec'[x]) = 0
               /\ ~exists'[x]
               /\ vec'[y] = vec[y]]_vars

\* a copy construction from a well-formed source failed after at least one
\* element had been built
C8_Witness ==
    /\ last.op = "copy_ctor" /\ last.res = "copy_throw"
    /\ last.arg[1] >= 1
    /\ Len(last.log) = 2 * last.arg[1]
    /\ WellFormed(vec[last.y])

\* C9: when an element copy fails during copy assignment a = b, the failure
\* reaches the caller and a and b, sizes and elements, are as they were.
C9_CopyAssignFailureKeepsBoth ==
    [][Did("copy_assign") /\ last'.res = "copy_throw"
         => vec' = vec /\ exists' = exists]_vars

\* a copy assignment onto a non-empty container failed after at least one
\* element had been copied
C9_Witness ==
    /\ last.op = "copy_assign" /\ last.res = "copy_throw"
    /\ last.x # last.y
    /\ last.arg[1] >= 1
    /\ size(vec[last.x]) > 0
    /\ Contents(vec[last.x]) # Contents(vec[last.y])

\* C10: constructing from a range or list of length L gives, when L <= N, a
\* container that holds exactly the source elements in order with
\* size() = L; when L > N it fails with bad_alloc and no element has been
\* constructed.
C10_RangeCtor ==
    last.op \in {"range_ctor", "list_ctor"}
    => LET src == last.arg
           x == last.x
       IN IF Len(src) <= N
          THEN /\ last.res = "ok" /\ exists[x]
               /\ size(vec[x]) = Len(src)
               /\ \A i \in 1 .. Len(src) : vec[x].buffer[i - 1] = Elem(src[i])
               /\ \A i \in Slots : i >= Len(src) => vec[x].buffer[i] = Raw
               /\ last.log = [i \in 1 .. Len(src) |-> Ev("construct", x, i - 1)]
          ELSE /\ last.res = "bad_alloc" /\ ~exists[x]
               /\ last.log = <<>>
               /\ vec[x] = EmptyVec

\* a range of N + 1 elements has been rejected while the other container,
\* built from N elements, holds them
C10_Witness ==
    /\ last.op = "range_ctor" /\ last.res = "bad_alloc"
    /\ Len(last.arg) = N + 1
    /\ ~exists[last.x]
    /\ \E y \in Names : exists[y] /\ size(vec[y]) = N /\ WellFormed(vec[y])

\* C11: fill construction (count, value) fails with bad_alloc and constructs
\* nothing when count > N; otherwise the container has size() = count and
\* every element at an index in [0, count) equals value.
C11_FillCtor ==
    last.op = "fill_ctor"
    => LET count == last.arg[1]
           value == last.arg[2]
           x == last.x
       IN IF count > N
          THEN /\ last.res = "bad_alloc" /\ ~exists[x]
               /\ last.log = <<>>
               /\ vec[x] = EmptyVec
          ELSE /\ last.res = "ok" /\ exists[x]
               /\ size(vec[x]) = count
               /\ \A i \in Slots :
                    vec[x].buffer[i] = IF i < count THEN Elem(value) ELSE Raw
               /\ last.log = [i \in 1 .. count |-> Ev("construct", x, i - 1)]

\* a fill of N + 1 elements has been rejected while the other container
\* holds N live elements
C11_Witness ==
    /\ last.op = "fill_ctor" /\ last.res = "bad_alloc"
    /\ last.arg[1] = N + 1
    /\ ~exists[last.x]
    /\ \E y \in Names : exists[y] /\ size(vec[y]) = N /\ WellFormed(vec[y])

\* C12 (fails): at(index) fails with out_of_range if and only if
\* index >= size(); for index < size() it returns the live element at that
\* position; in both cases the size and the contents of the container are
\* unchanged by the call.
C12_AtReturnsLiveElement ==
    [][Did("at")
       => LET x == last'.x
              pos == last'.arg[1]
              ref == last'.arg[2]
          IN /\ last'.res = "out_of_range" <=> pos >= size(vec[x])
             /\ last'.res # "out_of_range"
                  => /\ last'.res = "ok"
                     /\ ref = <<vec[x].buffer[pos]>>
                     /\ ref[1].live
             /\ vec' = vec
             /\ last'.log = <<>>]_vars

\* C13: for a container with size() < N, a successful push_back(x)
\* followed by pop_back() restores the prior size and the prior element
\* sequence; x is destroyed exactly once and is no longer observable by
\* iterating the container.  The append extends the sequence by x at slot
\* s = size() and touches nothing else; the pop_back that follows destroys
\* exactly that slot and touches nothing else.
C13_PushThenPopRestores ==
    [][(\A op \in Appends :
            Did(op) /\ size(vec[last'.x]) < N
            => LET x == last'.x
                   n == size(vec[x])
               IN /\ last'.res = "ok"
                  /\ last'.log = <<Ev("construct", x, n)>>
                  /\ size(vec'[x]) = n + 1
                  /\ vec'[x].buffer = [vec[x].buffer EXCEPT ![n] = Elem(last'.arg[1])])
       /\ (Did("pop_back") /\ last'.arg # <<>> /\ last.log[1].i < N
            => LET y == last'.x
                   m == last.log[1].i
               IN /\ last'.res = "ok"
                  /\ vec[y].buffer[m] = Elem(last'.arg[1])
                  /\ last'.log = <<Ev("destroy", y, m)>>
                  /\ "destroy_unconstructed" \notin last'.ub
                  /\ size(vec'[y]) = m
                  /\ vec'[y].buffer = [vec[y].buffer EXCEPT ![m] = Raw]
                  /\ Contents(vec'[y]) = SubSeq(Contents(vec[y]), 1, m)
                  /\ \A z \in Names \ {y} : vec'[z] = vec[z])]_vars

\* a value was appended to a container holding one element below capacity
\* and popped again: the container is back at N - 1 live elements
C13_Witness ==
    /\ last.op = "pop_back" /\ last.arg # <<>>
    /\ last.log = <<Ev("destroy", last.x, N - 1)>>
    /\ size(vec[last.x]) = N - 1
    /\ WellFormed(vec[last.x])

\* the destroy events of slots n - 1, n - 2, .., 0 of x
DestroyedDescending(x, n) == [k \in 1 .. n |-> Ev("destroy", x, n - k)]

\* C14 (fails): clear() and container destruction destroy every live
\* element exactly once in descending index order (size - 1 first, 0 last)
\* and leave size = 0; empty() is true after clear() from any state, and
\* clear() on an empty container destroys nothing and changes nothing.
C14_ClearDestroysDescending ==
    [][Did("clear") \/ Did("dtor")
       => LET x == last'.x
              n == size(vec[x])
          IN /\ last'.log = DestroyedDescending(x, n)
             /\ \A i \in Slots : vec[x].buffer[i].live <=> i < n
             /\ \A i \in Slots : ~vec'[x].buffer[i].live
             /\ size(vec'[x]) = 0 /\ empty(vec'[x])
             /\ Did("clear") /\ empty(vec[x]) => last'.log = <<>> /\ vec' = vec]_vars

\* the containers constructed from a range of at most N values
Constructed ==
    {range_ctor(Ctx([o \in Objs |-> EmptyVec]), "a", src).s.c["a"] :
        src \in {q \in SrcSeqs : Len(q) <= N}}

\* C15: operator== returns true if and only if the two containers have the
\* same size and equal elements at every position in [0, size); equality
\* is reflexive, symmetric and transitive, operator!= is its negation, and
\* comparing containers of different sizes reads no slot at all, so none
\* outside either live range.
C15_Equality ==
    last.op = "compare"
    => LET l == vec[last.x]
           r == vec[last.y]
           got == last.arg[1]
       IN /\ got.eq <=> /\ size(l) = size(r)
                        /\ \A i \in 0 .. size(l) - 1 : l.buffer[i].val = r.buffer[i].val
          /\ got.eq <=> Contents(l) = Contents(r)
          /\ got.ne <=> ~got.eq
          /\ size(l) # size(r) => got.reads = {}
          /\ \A i \in got.reads : i < size(l) /\ i < size(r)
          /\ op_eq(l, l).res /\ op_eq(r, r).res
          /\ op_eq(r, l).res <=> got.eq
          /\ \A c \in Constructed :
                /\ got.eq /\ op_eq(r, c).res => op_eq(l, c).res
                /\ op_eq(c, l).res /\ got.eq => op_eq(c, r).res

\* a container has been compared with a longer one that starts with the
\* same elements and is full
C15_Witness ==
    /\ last.op = "compare"
    /\ size(vec[last.x]) > 0
    /\ size(vec[last.x]) < size(vec[last.y])
    /\ size(vec[last.y]) = N
    /\ WellFormed(vec[last.x]) /\ WellFormed(vec[last.y])
    /\ Contents(vec[last.x]) = SubSeq(Contents(vec[last.y]), 1, size(vec[last.x]))
    /\ ~last.arg[1].eq /\ last.arg[1].ne

\* p is lexicographically less than q: they agree on the first k positions,
\* and then p ends while q goes on, or p has the smaller element
LexLess(p, q) ==
    \E k \in 0 .. Len(p) :
        /\ k <= Len(q)
        /\ \A j \in 1 .. k : p[j] = q[j]
        /\ \/ k = Len(p) /\ k < Len(q)
           \/ k < Len(p) /\ k < Len(q) /\ p[k + 1] < q[k + 1]

\* C16: operator< is the lexicographic order on the two live sequences (a
\* proper prefix is less than the longer sequence; the first differing
\* position decides otherwise), is irreflexive and transitive, and the
\* derived operators agree with it: a > b iff b < a, a <= b iff not (b < a),
\* a >= b iff not (a < b).
C16_Ordering ==
    last.op = "compare"
    => LET l == vec[last.x]
           r == vec[last.y]
           got == last.arg[1]
       IN /\ got.lt <=> LexLess(Contents(l), Contents(r))
          /\ got.gt <=> LexLess(Contents(r), Contents(l))
          /\ got.gt <=> op_lt(r, l)
          /\ got.le <=> ~op_lt(r, l)
          /\ got.ge <=> ~got.lt
          /\ ~op_lt(l, l) /\ ~op_lt(r, r)
          /\ \A c \in Constructed :
                /\ got.lt /\ op_lt(r, c) => op_lt(l, c)
                /\ op_lt(c, l) /\ got.lt => op_lt(c, r)

\* two full containers that differ in their last element only have been
\* compared, the one with the smaller last element on the left
C16_Witness ==
    /\ last.op = "compare"
    /\ last.arg[1].lt /\ ~last.arg[1].gt /\ last.arg[1].le /\ ~last.arg[1].ge
    /\ LET p == Contents(vec[last.x])
           q == Contents(vec[last.y])
       IN /\ Len(p) = N /\ Len(q) = N
          /\ SubSeq(p, 1, N - 1) = SubSeq(q, 1, N - 1)
          /\ p[N] < q[N]

\* C17 (fails): each successful append (push_back by copy, push_back by
\* move, emplace_back) on a container of size s constructs exactly one new
\* element at slot s, leaves the elements at slots [0, s) unchanged and
\* increments size to s + 1; the capacity validation is performed before
\* any slot or the size is modified, so a rejected append changes nothing.
C17_AppendFrame ==
    [][\A op \in Appends :
          Did(op)
          => LET x == last'.x
                 s == size(vec[x])
             IN /\ last'.res = "ok"
                    => /\ last'.log = <<Ev("construct", x, s)>>
                       /\ vec'[x].buffer[s] = Elem(last'.arg[1])
                       /\ \A i \in 0 .. s - 1 : vec'[x].buffer[i] = vec[x].buffer[i]
                       /\ size(vec'[x]) = s + 1
                /\ last'.res # "ok"
                    => /\ last'.res = "length_error"
                       /\ last'.log = <<>>
                       /\ vec' = vec
                /\ \A y \in Names \ {x} : vec'[y] = vec[y]]_vars

\* C18 (fails): across any sequence of constructions, appends, pop_back,
\* clear, swap, copy / move construction, copy / move assignment and
\* destructions, every element that is constructed is destroyed exactly
\* once by the time its container is destroyed: no operation constructs
\* over a live element, no operation destroys a slot that holds no
\* element, and no destructor (of a container or of the temporary of an
\* assignment) ends with a live element left in the storage it releases.
C18_NoLeakNoDoubleDestroy ==
    last.ub \cap {"leak", "destroy_unconstructed", "overwrite_live"} = {}

\* C19 (fails): no operation constructs or writes an element at a slot
\* index >= N: every placement by pb_internal, mb_internal or eb_internal
\* happens at an index in [0, N).
C19_PlacementInsideBuffer ==
    /\ "oob_write" \notin last.ub
    /\ \A k \in 1 .. Len(last.log) :
          last.log[k].e = "construct" => last.log[k].i < N
====
